---------------------------- MODULE Spec2Model ----------------------------
(***************************************************************************)
(* FinPace front end: the redux store's investments, budgets and            *)
(* transactions slices and the pages that derive figures from them.         *)
(*                                                                         *)
(* A slice is one variable holding the slice's state object.  `action' is   *)
(* the last action the store reduced (or the last React callback that ran), *)
(* with its payload.  A JS object is a record; an object spread is Spread.  *)
(***************************************************************************)
EXTENDS Integers, Sequences, FiniteSets, TLC

(* ------------------------------ bounds --------------------------------- *)

\* Entity ids the backend hands out: 1..MaxId.
MaxId == 2

Ids == 1..MaxId

(* --------------------------- JS numbers -------------------------------- *)
(* Amounts, quantities and prices are integers.  A quotient is an exact     *)
(* fraction <<n, d>> in lowest terms with d > 0; the three non-finite       *)
(* doubles are <<0, 0>> (NaN), <<1, 0>> (Infinity) and <<-1, 0>>            *)
(* (-Infinity).  Rounding of the binary representation is not modelled.     *)

Abs(n) == IF n < 0 THEN -n ELSE n

Sign(n) == IF n > 0 THEN 1 ELSE IF n < 0 THEN -1 ELSE 0

RECURSIVE GCD(_, _)
GCD(a, b) == IF b = 0 THEN a ELSE GCD(b, a % b)

\* The fraction n/d (d # 0) in lowest terms, denominator positive.
Frac(n, d) ==
    LET g == GCD(Abs(n), Abs(d))
        s == Sign(d)
    IN  << (s * n) \div g, (s * d) \div g >>

NaN == << 0, 0 >>

IsFinite(x) == x[2] # 0

\* a / b on integers, as the JS operator / gives it: x/0 is +-Infinity, 0/0 is NaN.
JSDiv(a, b) == IF b = 0 THEN << Sign(a), 0 >> ELSE Frac(a, b)

\* x * k for a quotient x and an integer k.
JSTimes(x, k) ==
    IF IsFinite(x) THEN Frac(x[1] * k, x[2])
    ELSE IF k = 0 \/ x = NaN THEN NaN
    ELSE << x[1] * Sign(k), 0 >>

\* x > k for a quotient x and an integer k (false for NaN, as in JS).
NumGreater(x, k) ==
    IF IsFinite(x) THEN x[1] > k * x[2] ELSE x = << 1, 0 >>

(* --------------------------- JS objects -------------------------------- *)

\* { ...a, ...b }: the fields of a, overridden and extended by those of b.
Spread(a, b) ==
    [k \in DOMAIN a \cup DOMAIN b |-> IF k \in DOMAIN b THEN b[k] ELSE a[k]]

\* null, for a field that otherwise holds an object; NoError for error: null.
Null == [null |-> TRUE]

NoError == "null"

\* array.map(f) and array.filter(keep)
FilterSeq(s, keep(_)) ==
    LET f[i \in 0..Len(s)] ==
            IF i = 0 THEN << >>
            ELSE IF keep(s[i]) THEN Append(f[i - 1], s[i]) ELSE f[i - 1]
    IN  f[Len(s)]

MapSeq(s, f(_)) == [i \in DOMAIN s |-> f(s[i])]

\* array.reduce((sum, t) => sum + val(t), 0)
SumSeq(s, val(_)) ==
    LET f[i \in 0..Len(s)] == IF i = 0 THEN 0 ELSE f[i - 1] + val(s[i])
    IN  f[Len(s)]

IdsOf(s) == { s[i].id : i \in DOMAIN s }

\* The lists over `rows' (records with an id) holding each id at most once, in
\* ascending id order: what a backend query over a table returns.
ListsOf(rows) ==
    UNION { { s \in [1..n -> rows] : \A i \in 1..n, j \in 1..n : i < j => s[i].id < s[j].id }
            : n \in 0..MaxId }

(* ------------------------- investments slice --------------------------- *)
(* An Investment is modelled by its id, quantity and avg_buy_price; the     *)
(* other fields (ticker, asset_type, ...) are copied along by the same      *)
(* spreads and never read.                                                  *)

Quantities == { 0, 2, 10 }

AvgBuyPrices == { 0, 5 }

CurrentPrices == { 8 }

QuoteTimes == { "2024-01-01T00:00:00" }

QuoteErrors == { "Quote unavailable" }

\* An Investment as the API returns one (response.data of create and update): at
\* most one of quantity and avg_buy_price differs from the stored holding's.
Investments ==
    { i \in [id : Ids, quantity : Quantities, avg_buy_price : AvgBuyPrices] :
        i.quantity = 10 \/ i.avg_buy_price = 5 }

\* A stored holding as the list and portfolio endpoints return it.
Holdings == { i \in Investments : i.quantity = 10 /\ i.avg_buy_price = 5 }

\* A position as GET /investments/portfolio computes it for a holding and a price.
PortfolioPosition(holding, price, time) ==
    LET marketValue == holding.quantity * price
        costBasis   == holding.quantity * holding.avg_buy_price
        profitLoss  == marketValue - costBasis
    IN  Spread(holding,
               [current_price |-> price,
                market_value |-> marketValue,
                profit_loss |-> profitLoss,
                profit_loss_percentage |-> JSTimes(JSDiv(profitLoss, costBasis), 100),
                last_updated |-> time])

\* The rows of a portfolio payload: computed positions, some of them flagged
\* with an error and carrying the last known price.
PortfolioRows ==
    LET computed == { PortfolioPosition(h, p, t) :
                        h \in Holdings, p \in CurrentPrices, t \in QuoteTimes }
    IN  computed \cup { Spread(r, [error |-> e]) : r \in computed, e \in QuoteErrors }

investmentsInitialState ==
    [investments |-> << >>,
     portfolioWithMarketData |-> << >>,
     investment |-> Null,
     loading |-> FALSE,
     error |-> NoError]

getInvestments_fulfilled(state, payload) ==
    [state EXCEPT !.loading = FALSE, !.investments = payload]

getPortfolioWithMarketData_fulfilled(state, payload) ==
    [state EXCEPT !.loading = FALSE, !.portfolioWithMarketData = payload]

getInvestment_fulfilled(state, payload) ==
    [state EXCEPT !.loading = FALSE, !.investment = payload]

createInvestment_fulfilled(state, payload) ==
    [state EXCEPT !.loading = FALSE, !.investments = Append(@, payload)]

\* Mutant: the cached valuation is discarded to zero on an edit.
RecalculateMarketData_discarded(investment, payload) ==
    Spread(payload,
           [current_price |-> 0,
            market_value |-> 0,
            profit_loss |-> 0,
            profit_loss_percentage |-> << 0, 1 >>,
            last_updated |-> investment.last_updated])

\* Mutant: the cost basis leaves out the quantity.
RecalculateMarketData_unitCost(investment, payload) ==
    LET currentPrice == investment.current_price
        marketValue  == payload.quantity * currentPrice
        costBasis    == payload.avg_buy_price
        profitLoss   == marketValue - costBasis
    IN  Spread(payload,
               [current_price |-> currentPrice,
                market_value |-> marketValue,
                profit_loss |-> profitLoss,
                profit_loss_percentage |-> JSTimes(JSDiv(profitLoss, costBasis), 100),
                last_updated |-> investment.last_updated])

\* The entry the portfolio map of updateInvestment.fulfilled returns for a cached
\* position whose id is the payload's.
RecalculateMarketData(investment, payload) ==
    LET currentPrice == investment.current_price
        marketValue  == payload.quantity * currentPrice
        costBasis    == payload.quantity * payload.avg_buy_price
        profitLoss   == marketValue - costBasis
        profitLossPercentage == JSTimes(JSDiv(profitLoss, costBasis), 100)
    IN  Spread(payload,
               [current_price |-> currentPrice,
                market_value |-> marketValue,
                profit_loss |-> profitLoss,
                profit_loss_percentage |-> profitLossPercentage,
                last_updated |-> investment.last_updated])

\* Mutant: the portfolio map recalculates every position, not only the edited one.
updateInvestment_fulfilled_everyPosition(state, payload) ==
    LET replace(investment) ==
            IF investment.id = payload.id THEN payload ELSE investment
        recalc(investment) == RecalculateMarketData(investment, payload)
    IN  [state EXCEPT
            !.loading = FALSE,
            !.investment = IF @ # Null /\ @.id = payload.id THEN payload ELSE @,
            !.investments = MapSeq(@, replace),
            !.portfolioWithMarketData = MapSeq(@, recalc)]

updateInvestment_fulfilled(state, payload) ==
    LET replace(investment) ==
            IF investment.id = payload.id THEN payload ELSE investment
        recalc(investment) ==
            IF investment.id = payload.id
            THEN RecalculateMarketData(investment, payload)
            ELSE investment
    IN  [state EXCEPT
            !.loading = FALSE,
            !.investment = IF @ # Null /\ @.id = payload.id THEN payload ELSE @,
            !.investments = MapSeq(@, replace),
            !.portfolioWithMarketData = MapSeq(@, recalc)]

deleteInvestment_fulfilled(state, payload) ==
    LET keep(investment) == investment.id # payload
    IN  [state EXCEPT
            !.loading = FALSE,
            !.investment = IF @ # Null /\ @.id = payload THEN Null ELSE @,
            !.investments = FilterSeq(@, keep),
            !.portfolioWithMarketData = FilterSeq(@, keep)]

(* --------------------------- budgets slice ----------------------------- *)
(* A Budget is modelled by its id, category_id and amount (the limit); a     *)
(* BudgetWithCategory adds category_name, a BudgetWithProgress the three     *)
(* progress fields.  month, year, user_id, ... are copied along, never read. *)

CategoryIds == { 7 }

CategoryNames == { "Food" }

LimitAmounts == { 100, 200 }

BudgetAmounts == { 0 } \cup LimitAmounts

SpentAmounts == { 50, 150 }

\* A Budget as PUT /budgets/{id} returns it (no category_name, no progress).
Budgets == [id : Ids, category_id : CategoryIds, amount : BudgetAmounts]

\* A stored budget with its category's name: the limit is positive.
BudgetsWithCategory ==
    [id : Ids, category_id : CategoryIds, amount : LimitAmounts,
     category_name : CategoryNames]

\* The progress GET /budgets/progress reports for a stored budget.
BudgetProgress(budget, spent) ==
    Spread(budget,
           [spent_amount |-> spent,
            remaining_amount |-> budget.amount - spent,
            percentage_used |-> JSTimes(JSDiv(spent, budget.amount), 100)])

BudgetProgressRows ==
    { BudgetProgress(b, spent) : b \in BudgetsWithCategory, spent \in SpentAmounts }

budgetsInitialState ==
    [budgets |-> << >>,
     budgetsWithProgress |-> << >>,
     budget |-> Null,
     loading |-> FALSE,
     error |-> NoError]

getBudgets_fulfilled(state, payload) ==
    [state EXCEPT !.loading = FALSE, !.budgets = payload]

getBudgetsWithProgress_fulfilled(state, payload) ==
    [state EXCEPT !.loading = FALSE, !.budgetsWithProgress = payload]

getBudget_fulfilled(state, payload) ==
    [state EXCEPT !.loading = FALSE, !.budget = payload]

createBudget_fulfilled(state, payload) ==
    [state EXCEPT !.loading = FALSE]

updateBudget_fulfilled(state, payload) ==
    LET merge(budget) ==
            IF budget.id = payload.id THEN Spread(budget, payload) ELSE budget
    IN  [state EXCEPT
            !.loading = FALSE,
            !.budget = IF @ # Null /\ @.id = payload.id THEN Spread(@, payload) ELSE @,
            !.budgets = MapSeq(@, merge),
            !.budgetsWithProgress = MapSeq(@, merge)]

deleteBudget_fulfilled(state, payload) ==
    LET keep(budget) == budget.id # payload
    IN  [state EXCEPT
            !.loading = FALSE,
            !.budget = IF @ # Null /\ @.id = payload THEN Null ELSE @,
            !.budgets = FilterSeq(@, keep),
            !.budgetsWithProgress = FilterSeq(@, keep)]

(* ------------------------ transactions slice --------------------------- *)
(* A Transaction is modelled by its id, amount, description, is_income and   *)
(* category_id; a TransactionWithCategory adds category_name.  A string that *)
(* is searched is a sequence of characters.                                  *)

TransactionAmounts == { 50, 70 }

Descriptions == { << "R", "e", "n", "t" >>, << "P", "a", "y" >> }

SearchedCategoryNames == { << "F", "o", "o", "d" >> }

\* A Transaction as PUT /transactions/{id} returns it.
Transactions ==
    [id : Ids, amount : TransactionAmounts, description : Descriptions,
     is_income : BOOLEAN, category_id : CategoryIds]

\* A Transaction as PUT /transactions/{id} returns it after it was moved to
\* another category.
OtherCategoryIds == { 8 }

RecategorisedTransactions ==
    { [t EXCEPT !.category_id = c] : t \in Transactions, c \in OtherCategoryIds }

TransactionsWithCategory ==
    { Spread(t, [category_name |-> n]) : t \in Transactions, n \in SearchedCategoryNames }

\* A payload of GET /transactions/summary/monthly.
MonthlySummaries ==
    { << >>, << [month |-> 1, income |-> 70, expenses |-> 50, savings |-> 20] >> }

transactionsInitialState ==
    [transactions |-> << >>,
     transaction |-> Null,
     monthlySummary |-> << >>,
     loading |-> FALSE,
     error |-> NoError]

getTransactions_fulfilled(state, payload) ==
    [state EXCEPT !.loading = FALSE, !.transactions = payload]

\* The cached list is left alone: a created Transaction has no category_name.
createTransaction_fulfilled(state, payload) == [state EXCEPT !.loading = FALSE]

\* Mutant: the updated transaction is cached as the API returned it, without
\* the category name it had.
updateTransaction_fulfilled_dropsName(state, payload) ==
    LET replace(transaction) ==
            IF transaction.id = payload.id THEN payload ELSE transaction
    IN  [state EXCEPT
            !.loading = FALSE,
            !.transaction = IF @ # Null /\ @.id = payload.id THEN payload ELSE @,
            !.transactions = MapSeq(@, replace)]

updateTransaction_fulfilled(state, payload) ==
    LET keepName(transaction) ==
            IF transaction.id = payload.id
            THEN Spread(payload, [category_name |-> transaction.category_name])
            ELSE transaction
    IN  [state EXCEPT
            !.loading = FALSE,
            !.transaction = IF @ # Null /\ @.id = payload.id
                            THEN Spread(payload, [category_name |-> @.category_name])
                            ELSE @,
            !.transactions = MapSeq(@, keepName)]

deleteTransaction_fulfilled(state, payload) ==
    LET keep(transaction) == transaction.id # payload
    IN  [state EXCEPT
            !.loading = FALSE,
            !.transaction = IF @ # Null /\ @.id = payload THEN Null ELSE @,
            !.transactions = FilterSeq(@, keep)]

(* ---------------------------- goals slice ------------------------------ *)
(* A Goal is modelled by its id, target_amount and current_amount; a         *)
(* GoalWithProgress adds progress_percentage.  name, status, deadline, ...   *)
(* are copied along by the same spreads and never read.                      *)

TargetAmounts == { 0, 100 }

CurrentAmounts == { 50, 100 }

\* A Goal as the API returns one (response.data of create and update).
Goals == [id : Ids, target_amount : TargetAmounts, current_amount : CurrentAmounts]

\* const progressPercentage = target_amount > 0 ? (current / target) * 100 : 0
progressPercentage(payload) ==
    IF payload.target_amount > 0
    THEN JSTimes(JSDiv(payload.current_amount, payload.target_amount), 100)
    ELSE << 0, 1 >>

\* { ...action.payload, progress_percentage: progressPercentage }
GoalWithProgress(payload) ==
    Spread(payload, [progress_percentage |-> progressPercentage(payload)])

\* The rows of the goals list and the goal being viewed.
GoalsWithProgress == { GoalWithProgress(g) : g \in Goals }

goalsInitialState ==
    [goals |-> << >>,
     goal |-> Null,
     loading |-> FALSE,
     error |-> NoError]

getGoals_fulfilled(state, payload) ==
    [state EXCEPT !.loading = FALSE, !.goals = payload]

getGoal_fulfilled(state, payload) ==
    [state EXCEPT !.loading = FALSE, !.goal = payload]

\* Mutant: the goal is cached as the API returned it, without its progress.
createGoal_fulfilled_bare(state, payload) ==
    [state EXCEPT !.loading = FALSE, !.goals = Append(@, payload)]

createGoal_fulfilled(state, payload) ==
    [state EXCEPT !.loading = FALSE, !.goals = Append(@, GoalWithProgress(payload))]

\* Mutant: the progress of an edited goal is computed from the amount cached
\* before the edit.
updateGoal_fulfilled_staleAmount(state, payload) ==
    LET stale(goal) ==
            Spread(payload,
                   [progress_percentage |->
                        progressPercentage([payload EXCEPT
                            !.current_amount = goal.current_amount])])
        replace(goal) == IF goal.id = payload.id THEN stale(goal) ELSE goal
    IN  [state EXCEPT
            !.loading = FALSE,
            !.goal = IF @ # Null /\ @.id = payload.id THEN stale(@) ELSE @,
            !.goals = MapSeq(@, replace)]

updateGoal_fulfilled(state, payload) ==
    LET replace(goal) ==
            IF goal.id = payload.id THEN GoalWithProgress(payload) ELSE goal
    IN  [state EXCEPT
            !.loading = FALSE,
            !.goal = IF @ # Null /\ @.id = payload.id
                     THEN GoalWithProgress(payload) ELSE @,
            !.goals = MapSeq(@, replace)]

deleteGoal_fulfilled(state, payload) ==
    LET keep(goal) == goal.id # payload
    IN  [state EXCEPT
            !.loading = FALSE,
            !.goal = IF @ # Null /\ @.id = payload THEN Null ELSE @,
            !.goals = FilterSeq(@, keep)]

(* -------------------------- categories slice --------------------------- *)
(* A Category is modelled by its id and name; the category tree by the list  *)
(* of its root categories.                                                   *)

Categories == [id : Ids, name : CategoryNames]

\* A Category as PUT /categories/{id} returns it after a rename.
RenamedCategories == [id : Ids, name : { "Groceries" }]

categoriesInitialState ==
    [categories |-> << >>,
     categoryTree |-> << >>,
     category |-> Null,
     loading |-> FALSE,
     error |-> NoError]

getCategories_fulfilled(state, payload) ==
    [state EXCEPT !.loading = FALSE, !.categories = payload]

getCategoryTree_fulfilled(state, payload) ==
    [state EXCEPT !.loading = FALSE, !.categoryTree = payload.categories]

createCategory_fulfilled(state, payload) ==
    [state EXCEPT !.loading = FALSE, !.categories = Append(@, payload)]

\* Mutant: an update of a category that is not cached inserts it.
updateCategory_fulfilled_upsert(state, payload) ==
    LET replace(category) == IF category.id = payload.id THEN payload ELSE category
        cached == \E i \in DOMAIN state.categories : state.categories[i].id = payload.id
    IN  [state EXCEPT
            !.loading = FALSE,
            !.categories = IF cached THEN MapSeq(@, replace) ELSE Append(@, payload)]

updateCategory_fulfilled(state, payload) ==
    LET replace(category) == IF category.id = payload.id THEN payload ELSE category
    IN  [state EXCEPT !.loading = FALSE, !.categories = MapSeq(@, replace)]

deleteCategory_fulfilled(state, payload) ==
    LET keep(category) == category.id # payload
    IN  [state EXCEPT !.loading = FALSE, !.categories = FilterSeq(@, keep)]

(* ----------------------------- auth slice ------------------------------ *)
(* The repository holds two copies of the auth slice: one calls axios (its   *)
(* own Authorization header), the other the shared api instance.  They       *)
(* differ in login.rejected, getUserProfile.rejected and logout; which one   *)
(* the store imports is the build's choice.                                  *)

AuthSlices == { "axios", "api" }

\* A string | null that is null.
NoToken == "null"

AccessTokens == { "access-1", "access-2" }

RefreshTokens == { "refresh-1" }

\* response.data of POST /auth/login.
LoginResponses == [access_token : AccessTokens, refresh_token : RefreshTokens]

\* response.data of GET and PUT /auth/me.
Users == { [id |-> 1, email |-> "ann@example.com"] }

InvalidCredentials == "Invalid authentication credentials"

\* The rejection payloads of the auth thunks that come from the server.
AuthRejectionPayloads ==
    { InvalidCredentials, "Failed to login. Please check your credentials." }

\* window.localStorage: the two keys the application uses.
emptyStorage == [token |-> NoToken, refreshToken |-> NoToken]

Storages ==
    { emptyStorage }
        \cup { [token |-> r.access_token, refreshToken |-> r.refresh_token] :
                 r \in LoginResponses }

setTokens(storage, response) ==
    [storage EXCEPT !.token = response.access_token,
                    !.refreshToken = response.refresh_token]

removeTokens(storage) == [storage EXCEPT !.token = NoToken, !.refreshToken = NoToken]

\* initialState: token and isAuthenticated are read from localStorage.
authInitialState(storage) ==
    [user |-> Null,
     token |-> storage.token,
     isAuthenticated |-> storage.token # NoToken,
     loading |-> FALSE,
     error |-> NoError]

\* Every value of the auth slice's state.
AuthStates ==
    [user : { Null } \cup Users,
     token : { NoToken } \cup AccessTokens,
     isAuthenticated : BOOLEAN,
     loading : BOOLEAN,
     error : { NoError } \cup AuthRejectionPayloads]

\* Mutant: logout forgets the profile and the error but keeps the session.
logout_keepsSession(slice, state) ==
    [state EXCEPT !.user = Null, !.error = NoError]

logout(slice, state) ==
    [state EXCEPT
        !.user = Null,
        !.token = NoToken,
        !.isAuthenticated = FALSE,
        !.loading = IF slice = "axios" THEN FALSE ELSE @,
        !.error = NoError]

clearError(state) == [state EXCEPT !.error = NoError]

login_fulfilled(state, payload) ==
    [state EXCEPT
        !.loading = FALSE,
        !.isAuthenticated = TRUE,
        !.token = payload.token,
        !.error = NoError]

\* Mutant: a rejected login leaves the spinner on and shows no error.
login_rejected_silent(slice, state, payload) ==
    [state EXCEPT !.isAuthenticated = IF slice = "axios" THEN FALSE ELSE @]

login_rejected(slice, state, payload) ==
    [state EXCEPT
        !.loading = FALSE,
        !.isAuthenticated = IF slice = "axios" THEN FALSE ELSE @,
        !.error = payload]

\* Mutant: a fulfilled registration signs the user in.
register_fulfilled_signsIn(state) ==
    [state EXCEPT !.loading = FALSE, !.error = NoError, !.isAuthenticated = TRUE]

register_fulfilled(state) == [state EXCEPT !.loading = FALSE, !.error = NoError]

register_rejected(state, payload) == [state EXCEPT !.loading = FALSE, !.error = payload]

getUserProfile_fulfilled(state, payload) ==
    [state EXCEPT !.loading = FALSE, !.user = payload, !.error = NoError]

\* The axios copy logs the user out for the invalid-credentials payload only,
\* the api copy for every payload; only the axios copy clears state.token.
getUserProfile_rejected(slice, state, payload) ==
    IF slice = "axios"
    THEN IF payload = InvalidCredentials
         THEN [state EXCEPT !.loading = FALSE, !.error = payload,
                            !.isAuthenticated = FALSE, !.token = NoToken]
         ELSE [state EXCEPT !.loading = FALSE, !.error = payload]
    ELSE [state EXCEPT !.loading = FALSE, !.error = payload,
                       !.isAuthenticated = FALSE]

\* The localStorage.removeItem calls of getUserProfile.rejected.
getUserProfile_rejected_storage(slice, storage, payload) ==
    IF slice = "axios" /\ payload # InvalidCredentials
    THEN storage
    ELSE removeTokens(storage)

updateProfile_fulfilled(state, payload) ==
    [state EXCEPT !.loading = FALSE, !.user = payload, !.error = NoError]

updateProfile_rejected(state, payload) == [state EXCEPT !.loading = FALSE, !.error = payload]

(* ------------------------------ pages ---------------------------------- *)

\* obj.field of a JS object: undefined when the object has no such field.
Get(obj, field) == IF field \in DOMAIN obj THEN obj[field] ELSE "undefined"

\* Intl.NumberFormat('en-US', {style: 'currency', currency}).format(amount) of
\* an integer amount: the sign, the whole units and the cents.
formatCurrency(amount) ==
    [currency |-> "USD", negative |-> amount < 0, units |-> Abs(amount), cents |-> 0]

\* x.toFixed(0): the nearest integer, a tie going away from zero; a non-finite
\* number prints as itself.
ToFixed0(x) ==
    IF IsFinite(x)
    THEN << Sign(x[1]) * ((2 * Abs(x[1]) + x[2]) \div (2 * x[2])), 1 >>
    ELSE x

\* Math.min(x, k)
MathMin(x, k) ==
    IF x = NaN THEN NaN ELSE IF NumGreater(x, k) THEN << k, 1 >> ELSE x

\* Dashboard: the budgets shown are budgetsWithProgress.slice(0, 3).
DashboardBudgetCount == 3

\* Mutant: the figures under the bar are capped like the bar.
BudgetProgressRow_capped(budget) ==
    [key |-> budget.id,
     category_name |-> budget.category_name,
     spent |-> formatCurrency(budget.spent_amount),
     limit |-> formatCurrency(budget.amount),
     color |-> IF NumGreater(budget.percentage_used, 100) THEN "bg-red-600"
               ELSE IF NumGreater(budget.percentage_used, 80) THEN "bg-yellow-500"
               ELSE "bg-green-500",
     width |-> MathMin(budget.percentage_used, 100),
     used |-> ToFixed0(MathMin(budget.percentage_used, 100)),
     remaining |-> formatCurrency(IF budget.remaining_amount < 0 THEN 0
                                  ELSE budget.remaining_amount)]

\* Dashboard: one budget of the Budget Progress card.
BudgetProgressRow(budget) ==
    [key |-> budget.id,
     category_name |-> budget.category_name,
     spent |-> formatCurrency(budget.spent_amount),
     limit |-> formatCurrency(budget.amount),
     color |-> IF NumGreater(budget.percentage_used, 100) THEN "bg-red-600"
               ELSE IF NumGreater(budget.percentage_used, 80) THEN "bg-yellow-500"
               ELSE "bg-green-500",
     width |-> MathMin(budget.percentage_used, 100),
     used |-> ToFixed0(budget.percentage_used),
     remaining |-> formatCurrency(budget.remaining_amount)]

\* Dashboard: the Budget Progress card.
BudgetProgressCard(budgetsState) ==
    LET list == budgetsState.budgetsWithProgress
        shown == SubSeq(list, 1, IF Len(list) < DashboardBudgetCount
                                 THEN Len(list) ELSE DashboardBudgetCount)
    IN  IF budgetsState.loading THEN [kind |-> "loading", rows |-> << >>]
        ELSE IF Len(list) = 0 THEN [kind |-> "empty", rows |-> << >>]
        ELSE [kind |-> "rows", rows |-> MapSeq(shown, BudgetProgressRow)]

\* Dashboard: the component's useState values on mount.
dashboardInitialState ==
    [totalIncome |-> 0, totalExpense |-> 0, netSavings |-> 0,
     totalPortfolioValue |-> 0, totalPortfolioProfit |-> 0]

\* Dashboard: the summary effect, run for the lists the store now holds.
DashboardSummaryEffect(d, transactionList, portfolio) ==
    LET isIncome(t) == Get(t, "type") = "income"
        isExpense(t) == Get(t, "type") = "expense"
        amount(t) == t.amount
        marketValue(i) == i.market_value
        profitLoss(i) == i.profit_loss
        income == SumSeq(FilterSeq(transactionList, isIncome), amount)
        expense == SumSeq(FilterSeq(transactionList, isExpense), amount)
        d1 == IF Len(transactionList) > 0
              THEN [d EXCEPT !.totalIncome = income,
                             !.totalExpense = expense,
                             !.netSavings = income - expense]
              ELSE d
    IN  IF Len(portfolio) > 0
        THEN [d1 EXCEPT !.totalPortfolioValue = SumSeq(portfolio, marketValue),
                        !.totalPortfolioProfit = SumSeq(portfolio, profitLoss)]
        ELSE d1

\* The mounted Dashboard after the store changed: its state after the effect,
\* and the card it renders.  Null while another route is shown.
DashboardAfter(d, txnState, budState, invState) ==
    IF d = Null THEN Null
    ELSE Spread(DashboardSummaryEffect(
                    [f \in DOMAIN dashboardInitialState |-> d[f]],
                    txnState.transactions, invState.portfolioWithMarketData),
                [budgetProgress |-> BudgetProgressCard(budState)])

\* String.prototype.toLowerCase and includes, on sequences of characters.
LowerCase(c) ==
    CASE c = "R" -> "r" [] c = "P" -> "p" [] c = "F" -> "f" [] c = "E" -> "e"
      [] OTHER -> c

toLowerCase(str) == [i \in DOMAIN str |-> LowerCase(str[i])]

includes(str, sub) ==
    \E i \in 0..(Len(str) - Len(sub)) : SubSeq(str, i + 1, i + Len(sub)) = sub

\* Transactions: the rows left by the search box.
filteredTransactions(transactionList, searchTerm) ==
    LET matches(transaction) ==
            \/ includes(toLowerCase(transaction.description), toLowerCase(searchTerm))
            \/ /\ "category_name" \in DOMAIN transaction
               /\ includes(toLowerCase(transaction.category_name), toLowerCase(searchTerm))
    IN  FilterSeq(transactionList, matches)

\* Transactions: the totals the page renders for a search term.
TransactionsTotals(transactionList, searchTerm) ==
    LET isIncome(t) == Get(t, "type") = "income"
        isExpense(t) == Get(t, "type") = "expense"
        amount(t) == t.amount
        filtered == filteredTransactions(transactionList, searchTerm)
        totalIncome == SumSeq(FilterSeq(filtered, isIncome), amount)
        totalExpense == SumSeq(FilterSeq(filtered, isExpense), amount)
    IN  [searchTerm |-> searchTerm,
         totalIncome |-> totalIncome,
         totalExpense |-> totalExpense,
         netAmount |-> totalIncome - totalExpense]

\* The mounted Transactions page after the store changed.
TransactionsPageAfter(page, txnState) ==
    IF page = Null THEN Null
    ELSE TransactionsTotals(txnState.transactions, page.searchTerm)

SearchTerms == { << >>, << "r", "e" >>, << "P" >> }

(* ------------------------------ router --------------------------------- *)
(* What <Routes> renders for a path, as a record naming the element.         *)

ProtectedPaths ==
    { "/", "/transactions", "/transactions/new", "/budgets", "/budgets/new",
      "/goals", "/goals/new", "/investments" }

PublicPaths == { "/login", "/register" }

\* A path none of the routes names: it matches path="*".
UnmatchedPaths == { "/settings" }

Paths == ProtectedPaths \cup PublicPaths \cup UnmatchedPaths

Navigate(to) == [element |-> "Navigate", to |-> to]

\* <Layout>{children}</Layout> with the page or placeholder of the route.
Children(path) ==
    [element |-> "Layout", children |-> IF path = "/" THEN "Dashboard" ELSE path]

\* Mutant: the guard is left out.
ProtectedRoute_open(authState, children) == children

ProtectedRoute(authState, children) ==
    IF ~authState.isAuthenticated THEN Navigate("/login") ELSE children

App(path, authState) ==
    CASE path = "/login" -> [element |-> "Login"]
      [] path = "/register" -> [element |-> "Register"]
      [] path \in ProtectedPaths -> ProtectedRoute(authState, Children(path))
      [] OTHER -> Navigate("/")

\* The location once the router has rendered `path': a <Navigate> replaces the
\* location, and the effect of Login and of Register navigates to / when
\* isAuthenticated.
RECURSIVE Settle(_, _)
Settle(path, authState) ==
    LET rendered == App(path, authState)
    IN  IF rendered.element = "Navigate" THEN Settle(rendered.to, authState)
        ELSE IF rendered.element \in { "Login", "Register" } /\ authState.isAuthenticated
        THEN Settle("/", authState)
        ELSE path

\* Login and Register dispatch clearError() when they unmount.
Unmount(from, to, authState) ==
    IF from \in PublicPaths /\ to # from THEN clearError(authState) ELSE authState

(* ------------------------------ store ---------------------------------- *)

VARIABLES investments, budgets, transactions, dashboard, transactionsPage, action,
          goals, categories, auth, authSlice, localStorage, location, onSubmit,
          request, inFlight

\* The part of the state the data pages of the first three slices never touch:
\* the goals, categories and auth slices, the auth slice copy of the build,
\* localStorage, the router's location and the onSubmit callbacks of Login and
\* Register that await a thunk.  `request': whether the last thunk dispatched
\* issued an HTTP request.
session == << goals, categories, auth, authSlice, localStorage, location, onSubmit >>

\* inFlight[slice]: the requests of the slice that were started and are not
\* settled, counted by when they started: `older' before the request whose
\* rejected action the slice reduced last, `newer' after that request and
\* before its rejection, `later' after its rejection.
vars == << investments, budgets, transactions, dashboard, transactionsPage, session,
           request, inFlight, action >>

Slices == { "investments", "budgets", "transactions", "goals", "categories", "auth" }

\* Requests of one slice in flight at once (a bound of the model).
MaxInFlight == 2

NoneInFlight == [older |-> 0, newer |-> 0, later |-> 0]

InFlightOf(slice) == inFlight[slice].older + inFlight[slice].newer + inFlight[slice].later

\* A further request of `slice' may start.
MayStart(slice) == InFlightOf(slice) < MaxInFlight

NoTokenFound == "No authentication token found"

\* The requests in flight once the store reduced action `a'. A pending action
\* starts one and a fulfilled one ends one of them. A rejected action ends any
\* one of them, the q-th in the order they started; the thunk's own rejection
\* for a missing token ends none, and its request is the last that started.
Track(a) ==
    IF a.slice \notin Slices THEN { inFlight }
    ELSE LET r == inFlight[a.slice]
             total == r.older + r.newer + r.later
             ended(field) == IF r[field] > 0 THEN { [r EXCEPT ![field] = @ - 1] } ELSE {}
         IN  { [inFlight EXCEPT ![a.slice] = after] :
                 after \in
                   CASE a.status = "pending" -> { [r EXCEPT !.later = @ + 1] }
                     [] a.status = "rejected" /\ (a.payload = NoTokenFound \/ total = 0) ->
                          { [older |-> total, newer |-> 0, later |-> 0] }
                     [] a.status = "rejected" ->
                          { [older |-> q - 1, newer |-> total - q, later |-> 0] :
                              q \in 1..total }
                     [] a.status = "fulfilled" /\ total > 0 ->
                          ended("older") \cup ended("newer") \cup ended("later")
                     [] OTHER -> { r } }

\* The action object the store reduces: slice/thunk/status and the payload.
Action(slice, thunk, status, payload) ==
    [slice |-> slice, thunk |-> thunk, status |-> status, payload |-> payload]

Is(a, thunk, status) == a.thunk = thunk /\ a.status = status

\* store.dispatch: the slices after the reducers ran, and the mounted page
\* re-rendered from them by its useSelector subscriptions.
Dispatch(a, invState, budState, txnState, http) ==
    /\ action' = a
    /\ request' = http
    /\ investments' = invState
    /\ budgets' = budState
    /\ transactions' = txnState
    /\ dashboard' = DashboardAfter(dashboard, txnState, budState, invState)
    /\ transactionsPage' = TransactionsPageAfter(transactionsPage, txnState)
    /\ inFlight' \in Track(a)
    /\ UNCHANGED session

\* What every slice reducer does on a pending and on a rejected thunk action.
Pending(state) == [state EXCEPT !.loading = TRUE, !.error = NoError]

Rejected_keepsLoading(state, payload) == [state EXCEPT !.error = payload]

Rejected(state, payload) == [state EXCEPT !.loading = FALSE, !.error = payload]

\* The rejection payloads of the data thunks that come from a failed request:
\* rejectWithValue(error.response?.data?.detail || 'Failed to ...').
RejectionPayloads == { "Not found", "Failed to fetch" }

\* The token check every thunk of the data slices, getUserProfile and
\* updateProfile starts with: the action the thunk dispatches before any
\* response, and whether it sends its request.
tokenCheck_skipped(storage) ==
    [status |-> "pending", payload |-> Null, request |-> TRUE]

tokenCheck(storage) ==
    IF storage.token = NoToken
    THEN [status |-> "rejected", payload |-> NoTokenFound, request |-> FALSE]
    ELSE [status |-> "pending", payload |-> Null, request |-> TRUE]

\* The slice once the thunk was dispatched: its pending action reduced, and
\* its rejected action too when the token check failed.
Dispatched(state, outcome) ==
    IF outcome.status = "rejected"
    THEN Rejected(Pending(state), outcome.payload)
    ELSE Pending(state)

InvestmentThunks ==
    { "getInvestments", "getPortfolioWithMarketData", "getInvestment",
      "createInvestment", "updateInvestment", "deleteInvestment" }

InvestmentsStep(state, thunk, status, payload) ==
    Dispatch(Action("investments", thunk, status, payload), state, budgets, transactions,
             request)

InvestmentsPending ==
    \E thunk \in InvestmentThunks :
        /\ MayStart("investments")
        /\ InvestmentsStep(Pending(investments), thunk, "pending", Null)

\* dispatch(thunk(...)): the token check, then the pending action and the
\* request, or the rejected action and no request.
InvestmentsDispatched ==
    \E thunk \in InvestmentThunks :
        LET outcome == tokenCheck(localStorage)
        IN  /\ MayStart("investments")
            /\ Dispatch(Action("investments", thunk, outcome.status, outcome.payload),
                        Dispatched(investments, outcome), budgets, transactions,
                        outcome.request)

\* A request in flight fails.
InvestmentsRejected ==
    \E thunk \in InvestmentThunks, payload \in RejectionPayloads :
        /\ InFlightOf("investments") > 0
        /\ InvestmentsStep(Rejected(investments, payload), thunk, "rejected", payload)

GetInvestmentsFulfilled ==
    \E payload \in ListsOf(Holdings) :
        InvestmentsStep(getInvestments_fulfilled(investments, payload),
                        "getInvestments", "fulfilled", payload)

GetPortfolioWithMarketDataFulfilled ==
    \E payload \in ListsOf(PortfolioRows) :
        InvestmentsStep(getPortfolioWithMarketData_fulfilled(investments, payload),
                        "getPortfolioWithMarketData", "fulfilled", payload)

GetInvestmentFulfilled ==
    \E payload \in Holdings :
        InvestmentsStep(getInvestment_fulfilled(investments, payload),
                        "getInvestment", "fulfilled", payload)

\* The backend numbers investments in the order of their creation: a created
\* investment's id is above every cached one.
CreateInvestmentFulfilled ==
    \E payload \in Investments :
        /\ \A id \in IdsOf(investments.investments) : id < payload.id
        /\ InvestmentsStep(createInvestment_fulfilled(investments, payload),
                           "createInvestment", "fulfilled", payload)

UpdateInvestmentFulfilled ==
    \E payload \in Investments :
        InvestmentsStep(updateInvestment_fulfilled(investments, payload),
                        "updateInvestment", "fulfilled", payload)

DeleteInvestmentFulfilled ==
    \E payload \in Ids :
        InvestmentsStep(deleteInvestment_fulfilled(investments, payload),
                        "deleteInvestment", "fulfilled", payload)

BudgetThunks ==
    { "getBudgets", "getBudgetsWithProgress", "getBudget",
      "createBudget", "updateBudget", "deleteBudget" }

BudgetsStep(state, thunk, status, payload) ==
    Dispatch(Action("budgets", thunk, status, payload), investments, state, transactions,
             request)

BudgetsPending ==
    \E thunk \in BudgetThunks :
        /\ MayStart("budgets")
        /\ BudgetsStep(Pending(budgets), thunk, "pending", Null)

BudgetsDispatched ==
    \E thunk \in BudgetThunks :
        LET outcome == tokenCheck(localStorage)
        IN  /\ MayStart("budgets")
            /\ Dispatch(Action("budgets", thunk, outcome.status, outcome.payload),
                        investments, Dispatched(budgets, outcome), transactions,
                        outcome.request)

BudgetsRejected ==
    \E thunk \in BudgetThunks, payload \in RejectionPayloads :
        /\ InFlightOf("budgets") > 0
        /\ BudgetsStep(Rejected(budgets, payload), thunk, "rejected", payload)

GetBudgetsFulfilled ==
    \E payload \in ListsOf(BudgetsWithCategory) :
        BudgetsStep(getBudgets_fulfilled(budgets, payload),
                    "getBudgets", "fulfilled", payload)

GetBudgetsWithProgressFulfilled ==
    \E payload \in ListsOf(BudgetProgressRows) :
        BudgetsStep(getBudgetsWithProgress_fulfilled(budgets, payload),
                    "getBudgetsWithProgress", "fulfilled", payload)

GetBudgetFulfilled ==
    \E payload \in BudgetsWithCategory :
        BudgetsStep(getBudget_fulfilled(budgets, payload),
                    "getBudget", "fulfilled", payload)

CreateBudgetFulfilled ==
    \E payload \in Budgets :
        BudgetsStep(createBudget_fulfilled(budgets, payload),
                    "createBudget", "fulfilled", payload)

UpdateBudgetFulfilled ==
    \E payload \in Budgets :
        BudgetsStep(updateBudget_fulfilled(budgets, payload),
                    "updateBudget", "fulfilled", payload)

DeleteBudgetFulfilled ==
    \E payload \in Ids :
        BudgetsStep(deleteBudget_fulfilled(budgets, payload),
                    "deleteBudget", "fulfilled", payload)

TransactionsStep(state, thunk, status, payload) ==
    Dispatch(Action("transactions", thunk, status, payload), investments, budgets, state,
             request)

TransactionThunks ==
    { "getTransactions", "getTransaction", "createTransaction", "updateTransaction",
      "deleteTransaction", "getMonthlySummary" }

TransactionsDispatched ==
    \E thunk \in TransactionThunks :
        LET outcome == tokenCheck(localStorage)
        IN  /\ MayStart("transactions")
            /\ Dispatch(Action("transactions", thunk, outcome.status, outcome.payload),
                        investments, budgets, Dispatched(transactions, outcome),
                        outcome.request)

TransactionsRejected ==
    \E thunk \in TransactionThunks, payload \in RejectionPayloads :
        /\ InFlightOf("transactions") > 0
        /\ TransactionsStep(Rejected(transactions, payload), thunk, "rejected", payload)

GetTransactionsFulfilled ==
    \E payload \in ListsOf(TransactionsWithCategory) :
        TransactionsStep(getTransactions_fulfilled(transactions, payload),
                         "getTransactions", "fulfilled", payload)

\* The backend numbers transactions in the order of their creation.
CreateTransactionFulfilled ==
    \E payload \in Transactions :
        /\ \A id \in IdsOf(transactions.transactions) : id < payload.id
        /\ TransactionsStep(createTransaction_fulfilled(transactions, payload),
                            "createTransaction", "fulfilled", payload)

RecategoriseTransactionFulfilled ==
    \E payload \in RecategorisedTransactions :
        TransactionsStep(updateTransaction_fulfilled(transactions, payload),
                         "updateTransaction", "fulfilled", payload)

UpdateTransactionFulfilled ==
    \E payload \in Transactions :
        TransactionsStep(updateTransaction_fulfilled(transactions, payload),
                         "updateTransaction", "fulfilled", payload)

DeleteTransactionFulfilled ==
    \E payload \in Ids :
        TransactionsStep(deleteTransaction_fulfilled(transactions, payload),
                         "deleteTransaction", "fulfilled", payload)

GoalThunks == { "getGoals", "getGoal", "createGoal", "updateGoal", "deleteGoal" }

\* The goals reducer alone changes the goals slice; no modelled page reads it.
GoalsReduce(a, state, http) ==
    /\ goals' = state
    /\ action' = a
    /\ request' = http
    /\ inFlight' \in Track(a)
    /\ UNCHANGED << investments, budgets, transactions, dashboard, transactionsPage,
                    categories, auth, authSlice, localStorage, location, onSubmit >>

GoalsStep(state, thunk, status, payload) ==
    GoalsReduce(Action("goals", thunk, status, payload), state, request)

GoalsDispatched ==
    \E thunk \in GoalThunks :
        LET outcome == tokenCheck(localStorage)
        IN  /\ MayStart("goals")
            /\ GoalsReduce(Action("goals", thunk, outcome.status, outcome.payload),
                           Dispatched(goals, outcome), outcome.request)

GoalsRejected ==
    \E thunk \in GoalThunks, payload \in RejectionPayloads :
        /\ InFlightOf("goals") > 0
        /\ GoalsStep(Rejected(goals, payload), thunk, "rejected", payload)

GetGoalsFulfilled ==
    \E payload \in ListsOf(GoalsWithProgress) :
        GoalsStep(getGoals_fulfilled(goals, payload), "getGoals", "fulfilled", payload)

GetGoalFulfilled ==
    \E payload \in GoalsWithProgress :
        GoalsStep(getGoal_fulfilled(goals, payload), "getGoal", "fulfilled", payload)

UpdateGoalFulfilled ==
    \E payload \in Goals :
        GoalsStep(updateGoal_fulfilled(goals, payload), "updateGoal", "fulfilled", payload)

CreateGoalFulfilled ==
    \E payload \in Goals :
        /\ \A id \in IdsOf(goals.goals) : id < payload.id
        /\ GoalsStep(createGoal_fulfilled(goals, payload), "createGoal", "fulfilled", payload)

DeleteGoalFulfilled ==
    \E payload \in Ids :
        GoalsStep(deleteGoal_fulfilled(goals, payload), "deleteGoal", "fulfilled", payload)

CategoryThunks ==
    { "getCategories", "getCategoryTree", "createCategory", "updateCategory",
      "deleteCategory" }

\* The categories reducer alone changes the categories slice.
CategoriesReduce(a, state, http) ==
    /\ categories' = state
    /\ action' = a
    /\ request' = http
    /\ inFlight' \in Track(a)
    /\ UNCHANGED << investments, budgets, transactions, dashboard, transactionsPage,
                    goals, auth, authSlice, localStorage, location, onSubmit >>

CategoriesStep(state, thunk, status, payload) ==
    CategoriesReduce(Action("categories", thunk, status, payload), state, request)

CategoriesDispatched ==
    \E thunk \in CategoryThunks :
        LET outcome == tokenCheck(localStorage)
        IN  /\ MayStart("categories")
            /\ CategoriesReduce(
                   Action("categories", thunk, outcome.status, outcome.payload),
                   Dispatched(categories, outcome), outcome.request)

CategoriesRejected ==
    \E thunk \in CategoryThunks, payload \in RejectionPayloads :
        /\ InFlightOf("categories") > 0
        /\ CategoriesStep(Rejected(categories, payload), thunk, "rejected", payload)

CreateCategoryFulfilled ==
    \E payload \in Categories :
        /\ \A id \in IdsOf(categories.categories) : id < payload.id
        /\ CategoriesStep(createCategory_fulfilled(categories, payload),
                          "createCategory", "fulfilled", payload)

UpdateCategoryFulfilled ==
    \E payload \in Categories \cup RenamedCategories :
        CategoriesStep(updateCategory_fulfilled(categories, payload),
                       "updateCategory", "fulfilled", payload)

DeleteCategoryFulfilled ==
    \E payload \in Ids :
        CategoriesStep(deleteCategory_fulfilled(categories, payload),
                       "deleteCategory", "fulfilled", payload)

\* The onSubmit callbacks awaiting each thunk; `resumed' while the one whose
\* login was fulfilled has not yet run its next statement.
NoSubmit == [login |-> 0, getUserProfile |-> 0, register |-> 0, resumed |-> FALSE]

InFlight(submits) == submits.login + submits.getUserProfile + submits.register

\* A step of the auth slice and of the page that dispatched: the reducer's
\* state, then the router settling at `target' and the unmount clean-up.
AuthStep(a, authState, target, storage, submits, http) ==
    LET to == Settle(target, authState)
    IN  /\ action' = a
        /\ auth' = Unmount(location, to, authState)
        /\ location' = to
        /\ localStorage' = storage
        /\ onSubmit' = submits
        /\ request' = http
        /\ inFlight' \in Track(a)
        /\ UNCHANGED << investments, budgets, transactions, goals, categories,
                        dashboard, transactionsPage, authSlice >>

\* The user follows a link or enters a path.
Visit ==
    \E path \in Paths :
        /\ ~onSubmit.resumed
        /\ AuthStep(Action("router", "navigate", "event", path),
                    auth, path, localStorage, onSubmit, request)

\* Login.onSubmit up to its first await: the button is disabled while loading.
LoginSubmit ==
    /\ location = "/login"
    /\ ~auth.loading
    /\ ~onSubmit.resumed
    /\ InFlight(onSubmit) < MaxInFlight
    /\ AuthStep(Action("auth", "login", "pending", Null),
                Pending(auth), location, localStorage,
                [onSubmit EXCEPT !.login = @ + 1], TRUE)

\* The login thunk stores the tokens and is fulfilled.
LoginFulfilled ==
    \E response \in LoginResponses :
        LET payload == [token |-> response.access_token]
        IN  /\ onSubmit.login > 0
            /\ ~onSubmit.resumed
            /\ AuthStep(Action("auth", "login", "fulfilled", payload),
                        login_fulfilled(auth, payload), location,
                        setTokens(localStorage, response),
                        [onSubmit EXCEPT !.login = @ - 1, !.resumed = TRUE], request)

LoginRejected ==
    \E payload \in AuthRejectionPayloads :
        /\ onSubmit.login > 0
        /\ ~onSubmit.resumed
        /\ AuthStep(Action("auth", "login", "rejected", payload),
                    login_rejected(authSlice, auth, payload), location, localStorage,
                    [onSubmit EXCEPT !.login = @ - 1], request)

\* Login.onSubmit after login.fulfilled.match(result): dispatch(getUserProfile()).
\* Without a token the thunk is rejected at once and onSubmit navigates to /.
GetUserProfileDispatched ==
    /\ onSubmit.resumed
    /\ IF localStorage.token = NoToken
       THEN AuthStep(Action("auth", "getUserProfile", "rejected", NoTokenFound),
                     getUserProfile_rejected(authSlice, Pending(auth), NoTokenFound), "/",
                     getUserProfile_rejected_storage(authSlice, localStorage, NoTokenFound),
                     [onSubmit EXCEPT !.resumed = FALSE], FALSE)
       ELSE AuthStep(Action("auth", "getUserProfile", "pending", Null),
                     Pending(auth), location, localStorage,
                     [onSubmit EXCEPT !.resumed = FALSE, !.getUserProfile = @ + 1], TRUE)

\* getUserProfile settles and Login.onSubmit runs navigate('/').
GetUserProfileFulfilled ==
    \E payload \in Users :
        /\ onSubmit.getUserProfile > 0
        /\ ~onSubmit.resumed
        /\ AuthStep(Action("auth", "getUserProfile", "fulfilled", payload),
                    getUserProfile_fulfilled(auth, payload), "/", localStorage,
                    [onSubmit EXCEPT !.getUserProfile = @ - 1], request)

GetUserProfileRejected ==
    \E payload \in AuthRejectionPayloads :
        /\ onSubmit.getUserProfile > 0
        /\ ~onSubmit.resumed
        /\ AuthStep(Action("auth", "getUserProfile", "rejected", payload),
                    getUserProfile_rejected(authSlice, auth, payload), "/",
                    getUserProfile_rejected_storage(authSlice, localStorage, payload),
                    [onSubmit EXCEPT !.getUserProfile = @ - 1], request)

\* Register.onSubmit up to the thunk's promise.
RegisterSubmit ==
    /\ location = "/register"
    /\ ~auth.loading
    /\ ~onSubmit.resumed
    /\ InFlight(onSubmit) < MaxInFlight
    /\ AuthStep(Action("auth", "register", "pending", Null),
                Pending(auth), location, localStorage,
                [onSubmit EXCEPT !.register = @ + 1], TRUE)

\* register is fulfilled and the .then callback runs navigate('/login').
RegisterFulfilled ==
    \E payload \in Users :
        /\ onSubmit.register > 0
        /\ ~onSubmit.resumed
        /\ AuthStep(Action("auth", "register", "fulfilled", payload),
                    register_fulfilled(auth), "/login", localStorage,
                    [onSubmit EXCEPT !.register = @ - 1], request)

RegisterRejected ==
    \E payload \in AuthRejectionPayloads :
        /\ onSubmit.register > 0
        /\ ~onSubmit.resumed
        /\ AuthStep(Action("auth", "register", "rejected", payload),
                    register_rejected(auth, payload), location, localStorage,
                    [onSubmit EXCEPT !.register = @ - 1], request)

\* Layout.handleLogout: dispatch(logout()); navigate('/login').
HandleLogout ==
    /\ App(location, auth).element = "Layout"
    /\ ~onSubmit.resumed
    /\ AuthStep(Action("auth", "logout", "event", Null),
                logout(authSlice, auth), "/login", removeTokens(localStorage),
                onSubmit, request)

\* Another tab of the application logs out: it removes the tokens from the
\* localStorage the tabs share.
StorageCleared ==
    /\ localStorage # emptyStorage
    /\ localStorage' = removeTokens(localStorage)
    /\ UNCHANGED << investments, budgets, transactions, goals, categories, dashboard,
                    transactionsPage, auth, authSlice, location, onSubmit, request,
                    action, inFlight >>

ProfileThunks == { "getUserProfile", "updateProfile" }

\* The reducer of a profile thunk's rejected action.
profile_rejected(thunk, slice, state, payload) ==
    IF thunk = "getUserProfile"
    THEN getUserProfile_rejected(slice, state, payload)
    ELSE updateProfile_rejected(state, payload)

\* localStorage after a profile thunk's rejected action.
profile_rejected_storage(thunk, slice, storage, payload) ==
    IF thunk = "getUserProfile"
    THEN getUserProfile_rejected_storage(slice, storage, payload)
    ELSE storage

\* dispatch(getUserProfile()) or dispatch(updateProfile(data)).
ProfileDispatched ==
    \E thunk \in ProfileThunks :
        LET outcome == tokenCheck(localStorage)
        IN  /\ MayStart("auth")
            /\ IF outcome.status = "rejected"
               THEN AuthStep(Action("auth", thunk, "rejected", outcome.payload),
                             profile_rejected(thunk, authSlice, Pending(auth),
                                              outcome.payload),
                             location,
                             profile_rejected_storage(thunk, authSlice, localStorage,
                                                      outcome.payload),
                             onSubmit, outcome.request)
               ELSE AuthStep(Action("auth", thunk, "pending", Null), Pending(auth),
                             location, localStorage, onSubmit, outcome.request)

ProfileFulfilled ==
    \E thunk \in ProfileThunks, payload \in Users :
        /\ InFlightOf("auth") > 0
        /\ AuthStep(Action("auth", thunk, "fulfilled", payload),
                    IF thunk = "getUserProfile"
                    THEN getUserProfile_fulfilled(auth, payload)
                    ELSE updateProfile_fulfilled(auth, payload),
                    location, localStorage, onSubmit, request)

ProfileRejected ==
    \E thunk \in ProfileThunks, payload \in AuthRejectionPayloads :
        /\ InFlightOf("auth") > 0
        /\ AuthStep(Action("auth", thunk, "rejected", payload),
                    profile_rejected(thunk, authSlice, auth, payload), location,
                    profile_rejected_storage(thunk, authSlice, localStorage, payload),
                    onSubmit, request)

\* Transactions: typing in the search box (setSearchTerm) re-renders the page.
SetSearchTerm ==
    \E term \in SearchTerms :
        /\ transactionsPage # Null
        /\ transactionsPage' = TransactionsTotals(transactions.transactions, term)
        /\ action' = Action("Transactions", "setSearchTerm", "event", term)
        /\ UNCHANGED << investments, budgets, transactions, dashboard, session,
                        request, inFlight >>

(* ------------------------- specifications ------------------------------ *)

\* configureStore: every slice in its initialState; the auth slice reads the
\* token from localStorage.
StoreInit ==
    /\ investments = investmentsInitialState
    /\ goals = goalsInitialState
    /\ budgets = budgetsInitialState
    /\ transactions = transactionsInitialState
    /\ categories = categoriesInitialState
    /\ auth = authInitialState(localStorage)
    /\ onSubmit = NoSubmit
    /\ request = FALSE
    /\ inFlight = [slice \in Slices |-> NoneInFlight]
    /\ action = Action("@@redux", "INIT", "init", Null)

\* The application opened at a route by a user who signed in before.
SignedInAt(path) ==
    /\ localStorage = [token |-> "access-1", refreshToken |-> "refresh-1"]
    /\ authSlice = "api"
    /\ location = path
    /\ StoreInit

\* The store alone: no page of the two modelled ones is mounted.
Init ==
    /\ SignedInAt("/investments")
    /\ dashboard = Null
    /\ transactionsPage = Null

\* The Dashboard route is shown.
InitDashboard ==
    /\ SignedInAt("/")
    /\ dashboard = DashboardAfter(dashboardInitialState, transactions, budgets, investments)
    /\ transactionsPage = Null

\* The Dashboard or the Transactions route is shown.
InitPages ==
    \/ /\ SignedInAt("/")
       /\ dashboard = DashboardAfter(dashboardInitialState,
                                     transactions, budgets, investments)
       /\ transactionsPage = Null
    \/ /\ SignedInAt("/transactions")
       /\ dashboard = Null
       /\ transactionsPage = TransactionsTotals(transactions.transactions, << >>)

\* The application opened at any path, with or without the tokens of an earlier
\* session in localStorage, built with either copy of the auth slice.
InitSession ==
    /\ localStorage \in Storages
    /\ authSlice \in AuthSlices
    /\ StoreInit
    /\ location \in { Settle(path, auth) : path \in Paths }
    /\ dashboard = Null
    /\ transactionsPage = Null

\* Signing up, signing in, moving between the routes and signing out.
SessionNext ==
    \/ Visit
    \/ LoginSubmit
    \/ LoginFulfilled
    \/ LoginRejected
    \/ GetUserProfileDispatched
    \/ GetUserProfileFulfilled
    \/ GetUserProfileRejected
    \/ RegisterSubmit
    \/ RegisterFulfilled
    \/ RegisterRejected
    \/ HandleLogout
    \/ StorageCleared

SpecSession == InitSession /\ [][SessionNext]_vars

\* The investments caches after the list, the portfolio and one holding were
\* fetched from the same table of holdings.
CachedInvestments ==
    LET holdingOf(row) == [id |-> row.id, quantity |-> row.quantity,
                           avg_buy_price |-> row.avg_buy_price]
        cached(rows, current) ==
            [investmentsInitialState EXCEPT
                !.investments = MapSeq(rows, holdingOf),
                !.portfolioWithMarketData = rows,
                !.investment = current]
    IN  UNION { { cached(rows, current) :
                    current \in { Null } \cup { holdingOf(rows[i]) : i \in DOMAIN rows } }
                : rows \in ListsOf(PortfolioRows) }

\* The goals caches after the list and one goal were fetched.
CachedGoals ==
    { [goalsInitialState EXCEPT !.goals = list, !.goal = current] :
        list \in ListsOf(GoalsWithProgress),
        current \in { Null } \cup GoalsWithProgress }

\* A signed-in store whose investments or goals caches are loaded.  The two
\* reducers are slice-local (combineReducers), so one slice is loaded at a time.
InitCached ==
    /\ localStorage = [token |-> "access-1", refreshToken |-> "refresh-1"]
    /\ authSlice = "api"
    /\ location = "/investments"
    /\ auth = authInitialState(localStorage)
    /\ onSubmit = NoSubmit
    /\ request = FALSE
    /\ inFlight = [slice \in Slices |-> NoneInFlight]
    /\ action = Action("@@redux", "INIT", "init", Null)
    /\ budgets = budgetsInitialState
    /\ transactions = transactionsInitialState
    /\ categories = categoriesInitialState
    /\ dashboard = Null
    /\ transactionsPage = Null
    /\ \/ investments \in CachedInvestments /\ goals = goalsInitialState
       \/ investments = investmentsInitialState /\ goals \in CachedGoals

\* One row of `rows' for every id: a table of the backend.
Table(rows) == { CHOOSE r \in rows : r.id = id : id \in Ids }

\* A list fetched from a table and the entity being viewed, one of its rows.
Viewed(list) == { Null } \cup { list[i] : i \in DOMAIN list }

\* The caches of each slice after its lists and one entity were fetched.
LoadedInvestments ==
    { s \in CachedInvestments :
        \A i \in DOMAIN s.portfolioWithMarketData :
            s.portfolioWithMarketData[i] \in Table(PortfolioRows) }

LoadedBudgets ==
    LET withCategory(row) == [id |-> row.id, category_id |-> row.category_id,
                              amount |-> row.amount, category_name |-> row.category_name]
    IN  UNION { { [budgetsInitialState EXCEPT
                      !.budgets = MapSeq(rows, withCategory),
                      !.budgetsWithProgress = rows,
                      !.budget = current] :
                    current \in Viewed(MapSeq(rows, withCategory)) }
                : rows \in ListsOf(Table(BudgetProgressRows)) }

LoadedTransactions ==
    UNION { { [transactionsInitialState EXCEPT
                  !.transactions = rows,
                  !.transaction = current,
                  !.monthlySummary = summary] :
                current \in Viewed(rows), summary \in MonthlySummaries }
            : rows \in ListsOf(Table(TransactionsWithCategory)) }

LoadedGoals ==
    { s \in CachedGoals :
        /\ \A i \in DOMAIN s.goals : s.goals[i] \in Table(GoalsWithProgress)
        /\ s.goal \in Viewed(s.goals) }

\* No reducer of the categories slice assigns a category to `category': it is
\* null in every state.  The tree is fetched by a request of its own.
LoadedCategories ==
    UNION { { [categoriesInitialState EXCEPT
                  !.categories = rows,
                  !.categoryTree = tree] :
                tree \in { << >>, rows } }
            : rows \in ListsOf(Table(Categories)) }

LoadedAuth(storage) ==
    { authInitialState(storage) }
        \cup { getUserProfile_fulfilled(authInitialState(storage), user) : user \in Users }

SignedIn == [token |-> "access-1", refreshToken |-> "refresh-1"]

\* A signed-in store with the caches of one slice loaded.  Every reducer is
\* handed its own slice only (combineReducers) and every thunk reads nothing
\* but localStorage, so one slice is loaded and requested at a time.
InitRequests ==
    /\ localStorage = SignedIn
    /\ authSlice \in AuthSlices
    /\ location = "/investments"
    /\ onSubmit = NoSubmit
    /\ request = FALSE
    /\ inFlight = [slice \in Slices |-> NoneInFlight]
    /\ action = Action("@@redux", "INIT", "init", Null)
    /\ dashboard = Null
    /\ transactionsPage = Null
    /\ \E loaded \in Slices :
          /\ investments \in IF loaded = "investments" THEN LoadedInvestments
                              ELSE { investmentsInitialState }
          /\ budgets \in IF loaded = "budgets" THEN LoadedBudgets
                          ELSE { budgetsInitialState }
          /\ transactions \in IF loaded = "transactions" THEN LoadedTransactions
                               ELSE { transactionsInitialState }
          /\ goals \in IF loaded = "goals" THEN LoadedGoals ELSE { goalsInitialState }
          /\ categories \in IF loaded = "categories" THEN LoadedCategories
                             ELSE { categoriesInitialState }
          /\ auth \in IF loaded = "auth" THEN LoadedAuth(localStorage)
                       ELSE { authInitialState(localStorage) }

\* The state of a slice in the store.
SliceOf(slice) ==
    CASE slice = "investments" -> investments
      [] slice = "budgets" -> budgets
      [] slice = "transactions" -> transactions
      [] slice = "goals" -> goals
      [] slice = "categories" -> categories
      [] slice = "auth" -> auth

\* The initialState of a slice in a signed-in store.
InitialOf(slice) ==
    CASE slice = "investments" -> investmentsInitialState
      [] slice = "budgets" -> budgetsInitialState
      [] slice = "transactions" -> transactionsInitialState
      [] slice = "goals" -> goalsInitialState
      [] slice = "categories" -> categoriesInitialState
      [] slice = "auth" -> authInitialState(SignedIn)

\* The behaviour follows the requests of one slice, the loaded one.
Serial(slice) ==
    /\ action.slice \in { "@@redux", slice }
    /\ \A other \in Slices \ { slice } : SliceOf(other) = InitialOf(other)

\* Thunks dispatched and settled, one slice's at a time, while another tab
\* may clear localStorage.
RequestsNext ==
    \/ StorageCleared
    \/ Serial("investments") /\ InvestmentsDispatched
    \/ Serial("investments") /\ InvestmentsRejected
    \/ Serial("investments") /\ InFlightOf("investments") > 0 /\ DeleteInvestmentFulfilled
    \/ Serial("budgets") /\ BudgetsDispatched
    \/ Serial("budgets") /\ BudgetsRejected
    \/ Serial("budgets") /\ InFlightOf("budgets") > 0 /\ DeleteBudgetFulfilled
    \/ Serial("transactions") /\ TransactionsDispatched
    \/ Serial("transactions") /\ TransactionsRejected
    \/ Serial("transactions") /\ InFlightOf("transactions") > 0
                              /\ DeleteTransactionFulfilled
    \/ Serial("goals") /\ GoalsDispatched
    \/ Serial("goals") /\ GoalsRejected
    \/ Serial("goals") /\ InFlightOf("goals") > 0 /\ DeleteGoalFulfilled
    \/ Serial("categories") /\ CategoriesDispatched
    \/ Serial("categories") /\ CategoriesRejected
    \/ Serial("categories") /\ InFlightOf("categories") > 0 /\ DeleteCategoryFulfilled
    \/ Serial("auth") /\ ProfileDispatched
    \/ Serial("auth") /\ ProfileFulfilled
    \/ Serial("auth") /\ ProfileRejected

SpecRequests == InitRequests /\ [][RequestsNext]_vars

\* A signed-in store of the api build with the caches of one data slice loaded.
InitEdits ==
    /\ InitRequests
    /\ authSlice = "api"
    /\ auth = InitialOf("auth")

\* Entities created, edited and deleted in the loaded slice.
EditsNext ==
    \/ Serial("investments") /\ CreateInvestmentFulfilled
    \/ Serial("investments") /\ UpdateInvestmentFulfilled
    \/ Serial("investments") /\ DeleteInvestmentFulfilled
    \/ Serial("budgets") /\ CreateBudgetFulfilled
    \/ Serial("budgets") /\ UpdateBudgetFulfilled
    \/ Serial("budgets") /\ DeleteBudgetFulfilled
    \/ Serial("transactions") /\ CreateTransactionFulfilled
    \/ Serial("transactions") /\ RecategoriseTransactionFulfilled
    \/ Serial("transactions") /\ DeleteTransactionFulfilled
    \/ Serial("goals") /\ CreateGoalFulfilled
    \/ Serial("goals") /\ UpdateGoalFulfilled
    \/ Serial("goals") /\ DeleteGoalFulfilled
    \/ Serial("categories") /\ CreateCategoryFulfilled
    \/ Serial("categories") /\ UpdateCategoryFulfilled
    \/ Serial("categories") /\ DeleteCategoryFulfilled

SpecEdits == InitEdits /\ [][EditsNext]_vars

\* An edit applied to loaded caches.
IdempotenceNext ==
    \/ UpdateInvestmentFulfilled
    \/ UpdateGoalFulfilled

SpecIdempotence == InitCached /\ [][IdempotenceNext]_vars

\* The portfolio and the investments list under the results that change them.
InvestmentsNext ==
    \/ GetInvestmentsFulfilled
    \/ GetPortfolioWithMarketDataFulfilled
    \/ CreateInvestmentFulfilled
    \/ UpdateInvestmentFulfilled
    \/ DeleteInvestmentFulfilled

SpecInvestments == Init /\ [][InvestmentsNext]_vars

\* The budget progress list under the results that change it.
BudgetsNext ==
    \/ GetBudgetsWithProgressFulfilled
    \/ CreateBudgetFulfilled
    \/ UpdateBudgetFulfilled
    \/ DeleteBudgetFulfilled

SpecBudgets == Init /\ [][BudgetsNext]_vars

\* The Dashboard's Budget Progress card while the budgets slice changes; a
\* request starts while none is loading.
DashboardNext ==
    \/ ~budgets.loading /\ BudgetsPending
    \/ GetBudgetsWithProgressFulfilled
    \/ UpdateBudgetFulfilled
    \/ DeleteBudgetFulfilled

SpecDashboard == InitDashboard /\ [][DashboardNext]_vars

\* The income and expense totals of the two pages while the list changes.
TotalsNext ==
    \/ GetTransactionsFulfilled
    \/ UpdateTransactionFulfilled
    \/ DeleteTransactionFulfilled
    \/ SetSearchTerm

SpecTotals == InitPages /\ [][TotalsNext]_vars

(* ------------------------------ claims --------------------------------- *)

Portfolio == investments.portfolioWithMarketData

IsUpdateInvestment(a) == Is(a, "updateInvestment", "fulfilled")

IsGetPortfolio(a) == Is(a, "getPortfolioWithMarketData", "fulfilled")

\* C1: when updateInvestment.fulfilled arrives for a holding present in
\* portfolioWithMarketData, the entry stays in its place with the same
\* current_price and last_updated as before the edit, and its market_value and
\* profit_loss are those of the payload's quantity and avg_buy_price at that price.
C1_EditPreservesLastFetchedPrice ==
    [][ IsUpdateInvestment(action') =>
          LET old == investments.portfolioWithMarketData
              new == investments'.portfolioWithMarketData
              p == action'.payload
          IN  /\ Len(new) = Len(old)
              /\ \A i \in DOMAIN old :
                    old[i].id = p.id =>
                      /\ new[i].id = p.id
                      /\ new[i].quantity = p.quantity
                      /\ new[i].avg_buy_price = p.avg_buy_price
                      /\ new[i].current_price = old[i].current_price
                      /\ new[i].last_updated = old[i].last_updated
                      /\ new[i].market_value = p.quantity * old[i].current_price
                      /\ new[i].profit_loss =
                            p.quantity * old[i].current_price
                              - p.quantity * p.avg_buy_price ]_vars

\* C1 witness: an edit to quantity 2 of a cached position left it valued at the
\* fetched price.
C1_Witness ==
    /\ IsUpdateInvestment(action)
    /\ \E i \in DOMAIN Portfolio :
          /\ Portfolio[i].id = action.payload.id
          /\ Portfolio[i].quantity = 2
          /\ Portfolio[i].current_price > 0
          /\ Portfolio[i].market_value = 2 * Portfolio[i].current_price

ValuationHolds(e) ==
    LET costBasis == e.quantity * e.avg_buy_price
    IN  /\ e.market_value = e.quantity * e.current_price
        /\ e.profit_loss = e.market_value - costBasis
        /\ costBasis > 0 =>
              e.profit_loss_percentage = Frac(e.profit_loss * 100, costBasis)

\* C2: every entry of portfolioWithMarketData, in every state reachable by fetch,
\* create, update and delete results whose fetched payloads satisfy the equations,
\* has market_value = quantity * current_price, profit_loss = market_value -
\* quantity * avg_buy_price and, for a positive cost basis, profit_loss_percentage
\* = profit_loss / cost basis * 100.
C2_ValuationEquations ==
    \A i \in DOMAIN Portfolio : ValuationHolds(Portfolio[i])

\* C2 witness: an edit recomputed quantity 10 at avg_buy_price 5 and price 8 to
\* a profit of 30 and 60 percent.
C2_Witness ==
    /\ IsUpdateInvestment(action)
    /\ \E i \in DOMAIN Portfolio :
          /\ Portfolio[i].id = action.payload.id
          /\ Portfolio[i].quantity = 10
          /\ Portfolio[i].avg_buy_price = 5
          /\ Portfolio[i].current_price = 8
          /\ Portfolio[i].profit_loss = 30
          /\ Portfolio[i].profit_loss_percentage = << 60, 1 >>

\* C3: no portfolio entry carries a profit_loss_percentage that is NaN or
\* infinite, and a recompute of a cached holding with quantity 0 or
\* avg_buy_price 0 leaves an error signalled (on the entry or in the slice).
C3_ZeroCostBasisGuarded ==
    /\ \A i \in DOMAIN Portfolio : IsFinite(Portfolio[i].profit_loss_percentage)
    /\ ( /\ IsUpdateInvestment(action)
         /\ action.payload.quantity * action.payload.avg_buy_price = 0 )
       => \A i \in DOMAIN Portfolio :
             Portfolio[i].id = action.payload.id =>
                \/ "error" \in DOMAIN Portfolio[i]
                \/ investments.error # NoError

\* C4: an entry of portfolioWithMarketData that has error set still has it after
\* every step that does not refresh the quote data (and does not delete it).
C4_ErrorIndicatorKept ==
    [][ ~IsGetPortfolio(action') =>
          LET old == investments.portfolioWithMarketData
              new == investments'.portfolioWithMarketData
          IN  \A i \in DOMAIN old :
                "error" \in DOMAIN old[i] =>
                   \A j \in DOMAIN new :
                      new[j].id = old[i].id => "error" \in DOMAIN new[j] ]_vars

\* C5: getPortfolioWithMarketData.fulfilled stores every entry of its payload,
\* flagged or not, and updateInvestment.fulfilled neither removes an entry nor
\* changes any entry other than the edited holding's.
C5_PartialFailureIsolation ==
    [][ LET old == investments.portfolioWithMarketData
            new == investments'.portfolioWithMarketData
        IN  /\ IsGetPortfolio(action') => new = action'.payload
            /\ IsUpdateInvestment(action') =>
                  /\ Len(new) = Len(old)
                  /\ \A i \in DOMAIN old :
                        old[i].id # action'.payload.id => new[i] = old[i] ]_vars

\* C5 witness: a holding was recomputed with a zero cost basis while the other
\* position of the portfolio, flagged unavailable, is still there.
C5_Witness ==
    /\ IsUpdateInvestment(action)
    /\ Len(Portfolio) = 2
    /\ \E i, j \in DOMAIN Portfolio :
          /\ Portfolio[i].id = action.payload.id
          /\ ~IsFinite(Portfolio[i].profit_loss_percentage)
          /\ Portfolio[j].id # action.payload.id
          /\ "error" \in DOMAIN Portfolio[j]

Progress == budgets.budgetsWithProgress

\* C6: every entry of budgetsWithProgress has remaining_amount = amount -
\* spent_amount, in every state reachable by getBudgetsWithProgress, updateBudget
\* and deleteBudget results.
C6_RemainingIsLimitMinusSpent ==
    \A i \in DOMAIN Progress :
        Progress[i].remaining_amount = Progress[i].amount - Progress[i].spent_amount

\* C7: every entry of budgetsWithProgress with amount > 0 has percentage_used =
\* spent_amount / amount * 100.
C7_PercentageIsSpentOverLimit ==
    \A i \in DOMAIN Progress :
        Progress[i].amount > 0 =>
            Progress[i].percentage_used =
                Frac(Progress[i].spent_amount * 100, Progress[i].amount)

\* C8: an entry of budgetsWithProgress with amount <= 0 carries a non-zero
\* percentage_used only while an error is signalled.
C8_NonPositiveLimitIsZeroPercent ==
    \A i \in DOMAIN Progress :
        (Progress[i].amount <= 0 /\ Progress[i].percentage_used # << 0, 1 >>)
            => budgets.error # NoError

\* The totals the claim asks for: the amounts of the expense entries and of the
\* income entries of a list (Transaction.is_income tells them apart).
ExpenseSum(list) ==
    LET isExpenseEntry(t) == ~t.is_income
        amount(t) == t.amount
    IN  SumSeq(FilterSeq(list, isExpenseEntry), amount)

IncomeSum(list) ==
    LET isIncomeEntry(t) == t.is_income
        amount(t) == t.amount
    IN  SumSeq(FilterSeq(list, isIncomeEntry), amount)

\* C9: the expense total of the Dashboard and of the Transactions page is the
\* sum of the amounts of the expense entries of the list shown, and the income
\* total the sum of the amounts of the income entries.
C9_TotalsSplitByType ==
    /\ dashboard # Null =>
          /\ dashboard.totalExpense = ExpenseSum(transactions.transactions)
          /\ dashboard.totalIncome = IncomeSum(transactions.transactions)
    /\ transactionsPage # Null =>
          LET shown == filteredTransactions(transactions.transactions,
                                            transactionsPage.searchTerm)
          IN  /\ transactionsPage.totalExpense = ExpenseSum(shown)
              /\ transactionsPage.totalIncome = IncomeSum(shown)

IsGetProgress(a) == Is(a, "getBudgetsWithProgress", "fulfilled")

\* What an unclamped row shows for a budget: the bar min(percentage_used, 100)
\* wide, the percentage as the nearest integer, the remaining amount with its sign.
ShowsUnclamped(row, budget) ==
    LET pct == budget.percentage_used
    IN  /\ row.width = IF pct[1] > 100 * pct[2] THEN << 100, 1 >> ELSE pct
        /\ row.used[2] = 1
        /\ 2 * Abs(row.used[1] * pct[2] - pct[1]) <= pct[2]
        /\ row.remaining.negative = (budget.remaining_amount < 0)
        /\ row.remaining.units = Abs(budget.remaining_amount)
        /\ row.remaining.cents = 0

\* C10: the store keeps percentage_used and remaining_amount as delivered (a
\* fetch stores its payload, no later result changes the two fields of a cached
\* entry), and each row of the Dashboard's card shows the percentage and the
\* remaining amount unclamped; only the bar width is min(percentage_used, 100).
C10_OverspendNotClamped ==
    [][ LET old == budgets.budgetsWithProgress
            new == budgets'.budgetsWithProgress
            card == dashboard'.budgetProgress
        IN  /\ IsGetProgress(action') => new = action'.payload
            /\ ~IsGetProgress(action') =>
                  \A j \in DOMAIN new : \E i \in DOMAIN old :
                      /\ old[i].id = new[j].id
                      /\ old[i].percentage_used = new[j].percentage_used
                      /\ old[i].remaining_amount = new[j].remaining_amount
            /\ (~budgets'.loading /\ Len(new) > 0) =>
                  /\ card.kind = "rows"
                  /\ Len(card.rows) =
                        (IF Len(new) < DashboardBudgetCount
                         THEN Len(new) ELSE DashboardBudgetCount)
                  /\ \A i \in DOMAIN card.rows :
                        ShowsUnclamped(card.rows[i], new[i]) ]_vars

\* C10 witness: the card shows an overspent budget as 150% used and 50 below
\* zero remaining, with a full bar.
C10_Witness ==
    /\ dashboard # Null
    /\ dashboard.budgetProgress.kind = "rows"
    /\ \E i \in DOMAIN dashboard.budgetProgress.rows :
          /\ Progress[i].percentage_used = << 150, 1 >>
          /\ Progress[i].remaining_amount = -50
          /\ dashboard.budgetProgress.rows[i].width = << 100, 1 >>
          /\ dashboard.budgetProgress.rows[i].used = << 150, 1 >>
          /\ dashboard.budgetProgress.rows[i].remaining.negative
          /\ dashboard.budgetProgress.rows[i].remaining.units = 50

IsUpdateGoal(a) == Is(a, "updateGoal", "fulfilled")

\* C11: recomputation is idempotent and has no hidden state: the investments
\* state (investments, investment, portfolioWithMarketData) an
\* updateInvestment.fulfilled leaves is the state the same action with the same
\* payload maps it to, and the goals state an updateGoal.fulfilled leaves is the
\* state the same updateGoal.fulfilled maps it to.
C11_RecomputationIdempotent ==
    [][ /\ IsUpdateInvestment(action') =>
            updateInvestment_fulfilled(investments', action'.payload) = investments'
        /\ IsUpdateGoal(action') =>
            updateGoal_fulfilled(goals', action'.payload) = goals' ]_vars

\* An edit that changed the quantity of a holding which is cached in the list,
\* in the portfolio and as the holding being viewed.
C11_Witness ==
    /\ IsUpdateInvestment(action)
    /\ action.payload.quantity = 2
    /\ investments.investment = action.payload
    /\ \E i \in DOMAIN investments.investments :
           investments.investments[i] = action.payload
    /\ \E i \in DOMAIN Portfolio :
           /\ Portfolio[i].id = action.payload.id
           /\ Portfolio[i].market_value = 2 * Portfolio[i].current_price

\* C12: protected routing: while auth.isAuthenticated is false every protected
\* route (/, /transactions, /transactions/new, /budgets, /budgets/new, /goals,
\* /goals/new, /investments) renders a redirect to /login and never its
\* children, so the location shown is no protected path; while it is true every
\* protected route renders its children.
C12_ProtectedRouting ==
    /\ \A path \in ProtectedPaths :
          App(path, auth) = IF auth.isAuthenticated
                            THEN Children(path)
                            ELSE Navigate("/login")
    /\ location \in ProtectedPaths => auth.isAuthenticated

\* A user who is not signed in asked for a protected path and is at /login.
C12_Witness ==
    /\ Is(action, "navigate", "event")
    /\ action.payload \in ProtectedPaths
    /\ ~auth.isAuthenticated
    /\ location = "/login"

\* C13: login outcome: right after login.fulfilled the auth state has
\* isAuthenticated = true, token = the returned access token, loading = false and
\* error = null; right after login.rejected it has loading = false, error = the
\* rejection payload and isAuthenticated = false.
C13_LoginOutcome ==
    /\ Is(action, "login", "fulfilled") =>
          /\ auth.isAuthenticated
          /\ auth.token = action.payload.token
          /\ ~auth.loading
          /\ auth.error = NoError
    /\ Is(action, "login", "rejected") =>
          /\ ~auth.loading
          /\ auth.error = action.payload
          /\ ~auth.isAuthenticated

\* A login rejected in the build whose login.rejected does not write
\* isAuthenticated.
C13_Witness ==
    /\ Is(action, "login", "rejected")
    /\ authSlice = "api"
    /\ auth.error = action.payload
    /\ ~auth.isAuthenticated

\* C14: logout clears the whole session: the logout reducer maps every auth
\* state to one with user = null, token = null, isAuthenticated = false and
\* error = null; right after handleLogout neither token nor refreshToken is in
\* localStorage and every protected route redirects to /login.
C14_LogoutClearsSession ==
    /\ \A slice \in AuthSlices, state \in AuthStates :
          LET after == logout(slice, state)
          IN  /\ after.user = Null
              /\ after.token = NoToken
              /\ ~after.isAuthenticated
              /\ after.error = NoError
    /\ Is(action, "logout", "event") =>
          /\ auth.user = Null
          /\ auth.token = NoToken
          /\ ~auth.isAuthenticated
          /\ auth.error = NoError
          /\ localStorage.token = NoToken
          /\ localStorage.refreshToken = NoToken
          /\ \A path \in ProtectedPaths : App(path, auth) = Navigate("/login")
          /\ location = "/login"

\* The user signed out while a getUserProfile request was still in flight.
C14_Witness ==
    /\ Is(action, "logout", "event")
    /\ onSubmit.getUserProfile > 0
    /\ location = "/login"
    /\ localStorage = emptyStorage

\* C15: registration never authenticates: register.pending, register.fulfilled
\* and register.rejected leave isAuthenticated, token and user as they were, and
\* the step of a fulfilled registration navigates to /login (where the Login page
\* stays unless the user is signed in).
C15_RegistrationNeverAuthenticates ==
    [][ action'.thunk = "register" =>
            /\ auth'.isAuthenticated = auth.isAuthenticated
            /\ auth'.token = auth.token
            /\ auth'.user = auth.user
            /\ action'.status = "fulfilled" =>
                  location' = IF auth'.isAuthenticated THEN "/" ELSE "/login" ]_vars

\* A registration was fulfilled from the Register page: the user is at /login
\* and not signed in.
C15_Witness ==
    /\ Is(action, "register", "fulfilled")
    /\ location = "/login"
    /\ ~auth.isAuthenticated
    /\ auth.token = NoToken

\* C16: if the token is invalid the user is logged out: right after
\* getUserProfile is rejected with 'Invalid authentication credentials' the auth
\* state has isAuthenticated = false, token = null and loading = false, its error
\* is the rejection payload (null once an unmounting Register page cleared it),
\* and neither token nor refreshToken is in localStorage.
C16_InvalidTokenLogsOut ==
    (Is(action, "getUserProfile", "rejected") /\ action.payload = InvalidCredentials) =>
        /\ ~auth.isAuthenticated
        /\ auth.token = NoToken
        /\ ~auth.loading
        /\ auth.error \in { action.payload, NoError }
        /\ localStorage.token = NoToken
        /\ localStorage.refreshToken = NoToken

IsGetUserProfileSettled(a) ==
    a.thunk = "getUserProfile" /\ a.status \in { "fulfilled", "rejected" }

\* getUserProfile is dispatched only by an onSubmit whose login was fulfilled.
ProfileAfterLogin ==
    /\ (~onSubmit.resumed /\ onSubmit'.resumed) => Is(action', "login", "fulfilled")
    /\ (action'.thunk = "getUserProfile" /\ action'.status = "pending") => onSubmit.resumed
    /\ onSubmit'.getUserProfile > onSubmit.getUserProfile => onSubmit.resumed

\* A rejected login dispatches no getUserProfile and does not navigate to /.
RejectedLoginStays ==
    Is(action', "login", "rejected") =>
        /\ ~onSubmit'.resumed
        /\ onSubmit'.getUserProfile = onSubmit.getUserProfile
        /\ location' = "/" => location = "/"

\* C17: ordering of the login flow: on submitting the login form getUserProfile
\* is dispatched only after login has been fulfilled, the location becomes /
\* in a step of the login flow only when getUserProfile has settled, and a
\* rejected login neither dispatches getUserProfile nor navigates to /.
\* (The effect of the Login page moves the location to / in the step of
\* login.fulfilled, before getUserProfile is dispatched.)
C17_LoginFlowOrder ==
    [][ /\ ProfileAfterLogin
        /\ RejectedLoginStays
        /\ (action'.thunk \in { "login", "getUserProfile" }
              /\ location # "/" /\ location' = "/") =>
               IsGetUserProfileSettled(action') ]_vars

\* The data a slice caches: its state but for the request flags loading and
\* error and, in the auth slice, the session flag isAuthenticated.
Cached(state) ==
    [field \in DOMAIN state \ { "loading", "error", "isAuthenticated" } |-> state[field]]

\* The step dispatches a thunk of `slice': its action is reduced and no request
\* of the slice that was in flight has ended.
ThunkStarted(slice) ==
    /\ action'.slice = slice
    /\ InFlightOf(slice)' >= InFlightOf(slice)

\* C18: a thunk of the data slices (transactions, budgets, goals, investments,
\* categories), getUserProfile or updateProfile dispatched while localStorage
\* holds no token is rejected with 'No authentication token found' and sends
\* no HTTP request; its slice then has error = that message and loading =
\* false, and the slice's cached data is what it was.
C18_MissingTokenRejectedLocally ==
    [][ \A slice \in Slices :
          (localStorage.token = NoToken /\ ThunkStarted(slice)) =>
              /\ action'.status = "rejected"
              /\ action'.payload = NoTokenFound
              /\ ~request'
              /\ SliceOf(slice)'.error = NoTokenFound
              /\ ~SliceOf(slice)'.loading
              /\ Cached(SliceOf(slice)') = Cached(SliceOf(slice)) ]_vars

\* A transactions thunk was dispatched without a token while the list, the
\* transaction being viewed and the monthly summary were loaded.
C18_Witness ==
    /\ localStorage.token = NoToken
    /\ action.slice = "transactions"
    /\ action.status = "rejected"
    /\ action.payload = NoTokenFound
    /\ ~request
    /\ transactions.error = NoTokenFound
    /\ Len(transactions.transactions) > 0
    /\ transactions.transaction # Null
    /\ Len(transactions.monthlySummary) > 0

DataSlices == Slices \ { "auth" }

\* C19: every rejected action of the five data slices sets loading = false and
\* error = the rejection payload and leaves the cached lists and the current
\* entity of its slice as they were.
C19_RejectedKeepsCaches ==
    [][ \A slice \in DataSlices :
          (action'.slice = slice /\ action'.status = "rejected") =>
              /\ ~SliceOf(slice)'.loading
              /\ SliceOf(slice)'.error = action'.payload
              /\ Cached(SliceOf(slice)') = Cached(SliceOf(slice)) ]_vars

\* A request of the goals slice failed while the goals list and the goal
\* being viewed were loaded.
C19_Witness ==
    /\ action.slice = "goals"
    /\ action.status = "rejected"
    /\ action.payload \in RejectionPayloads
    /\ request
    /\ goals.error = action.payload
    /\ ~goals.loading
    /\ Len(goals.goals) > 0
    /\ goals.goal # Null

\* C20: in every slice a pending action sets loading = true and error = null
\* and changes nothing else of the slice, and whenever a slice shows the error
\* of a rejected request, no request of that slice that started after the
\* rejected one is in flight.
C20_PendingClearsError ==
    [][ \A slice \in Slices :
          /\ (action'.slice = slice /\ action'.status = "pending") =>
                 SliceOf(slice)' =
                     [SliceOf(slice) EXCEPT !.loading = TRUE, !.error = NoError]
          /\ SliceOf(slice)'.error # NoError =>
                 inFlight'[slice].newer = 0 /\ inFlight'[slice].later = 0 ]_vars

\* The fields of a slice that cache a list, and the one that holds the entity
\* being viewed.
ListFields(slice) ==
    CASE slice = "investments" -> { "investments", "portfolioWithMarketData" }
      [] slice = "budgets" -> { "budgets", "budgetsWithProgress" }
      [] slice = "transactions" -> { "transactions" }
      [] slice = "goals" -> { "goals" }
      [] slice = "categories" -> { "categories", "categoryTree" }

CurrentField(slice) ==
    CASE slice = "investments" -> "investment"
      [] slice = "budgets" -> "budget"
      [] slice = "transactions" -> "transaction"
      [] slice = "goals" -> "goal"
      [] slice = "categories" -> "category"

\* `a' is the fulfilled action of the create, update or delete thunk of `slice'.
IsEdit(a, slice, verb) ==
    /\ a.slice = slice
    /\ a.status = "fulfilled"
    /\ a.thunk \in { verb \o entity :
                      entity \in { "Investment", "Budget", "Transaction", "Goal", "Category" } }

\* C21: after deleteX.fulfilled(id) every cached list of the slice is the list
\* it was without the entries of that id (no entry has the id, the others are
\* unchanged and in their order), and the current entity is null if it had the
\* id and is otherwise unchanged.
C21_DeleteRemovesEverywhere ==
    [][ \A slice \in DataSlices :
          IsEdit(action', slice, "delete") =>
              LET other(entry) == entry.id # action'.payload
                  current == SliceOf(slice)[CurrentField(slice)]
              IN  /\ \A field \in ListFields(slice) :
                        SliceOf(slice)'[field] = FilterSeq(SliceOf(slice)[field], other)
                  /\ SliceOf(slice)'[CurrentField(slice)] =
                        IF current # Null /\ current.id = action'.payload
                        THEN Null ELSE current ]_vars

\* C22: after updateX.fulfilled(payload) every cached list of the slice has
\* the length, the ids and the order it had, only entries whose id is the
\* payload's are changed, the current entity changes only if its id is the
\* payload's, and when no cached entry has that id the lists are unchanged.
C22_UpdateTouchesOnlyMatching ==
    [][ \A slice \in DataSlices :
          IsEdit(action', slice, "update") =>
              LET before == SliceOf(slice)
                  after == SliceOf(slice)'
                  id == action'.payload.id
                  current == before[CurrentField(slice)]
              IN  /\ \A field \in ListFields(slice) :
                        /\ Len(after[field]) = Len(before[field])
                        /\ \A i \in DOMAIN before[field] :
                              /\ after[field][i].id = before[field][i].id
                              /\ before[field][i].id # id =>
                                    after[field][i] = before[field][i]
                        /\ (\A i \in DOMAIN before[field] : before[field][i].id # id) =>
                              after[field] = before[field]
                  /\ after[CurrentField(slice)] # current =>
                        current # Null /\ current.id = id ]_vars

\* An update has rewritten one of two cached categories and left the other.
C22_Witness ==
    /\ IsEdit(action, "categories", "update")
    /\ action.payload.name = "Groceries"
    /\ Len(categories.categories) = 2
    /\ \E i, j \in DOMAIN categories.categories :
          /\ categories.categories[i] = action.payload
          /\ categories.categories[j].id # action.payload.id
          /\ categories.categories[j].name = "Food"

\* The list a create thunk of the slice appends to, if it appends at all.
AppendedList(slice) ==
    CASE slice = "investments" -> "investments"
      [] slice = "goals" -> "goals"
      [] slice = "categories" -> "categories"

\* The slice after a create that caches `entry': loading is false, `entry' is
\* the new last element of the slice's list, every other field is as it was.
Appended(slice, entry) ==
    [SliceOf(slice) EXCEPT !.loading = FALSE, ![AppendedList(slice)] = Append(@, entry)]

\* C23 as stated: createTransaction.fulfilled and createBudget.fulfilled only
\* set loading to false, and createInvestment.fulfilled, createGoal.fulfilled
\* and createCategory.fulfilled append the payload itself to investments, goals
\* and categories and leave the other lists as they were.
C23_CreateAppendsPayload ==
    [][ \A slice \in DataSlices :
          IsEdit(action', slice, "create") =>
              IF slice \in { "transactions", "budgets" }
              THEN SliceOf(slice)' = [SliceOf(slice) EXCEPT !.loading = FALSE]
              ELSE SliceOf(slice)' = Appended(slice, action'.payload) ]_vars

\* C23, amended: as stated, except that the entry createGoal.fulfilled appends
\* to goals is the payload extended with the progress_percentage computed from
\* its current_amount and target_amount.
C23_CreateEffect ==
    [][ \A slice \in DataSlices :
          IsEdit(action', slice, "create") =>
              CASE slice \in { "transactions", "budgets" } ->
                      SliceOf(slice)' = [SliceOf(slice) EXCEPT !.loading = FALSE]
                [] slice \in { "investments", "categories" } ->
                      SliceOf(slice)' = Appended(slice, action'.payload)
                [] slice = "goals" ->
                      goals' = Appended("goals",
                                   Spread(action'.payload,
                                          [progress_percentage |->
                                               progressPercentage(action'.payload)])) ]_vars

\* A created goal is the second entry of the goals list, with its progress.
C23_Witness ==
    /\ IsEdit(action, "goals", "create")
    /\ Len(goals.goals) = 2
    /\ goals.goals[2].id = action.payload.id
    /\ goals.goals[2].current_amount = action.payload.current_amount
    /\ goals.goals[2].progress_percentage = progressPercentage(action.payload)
    /\ goals.goals[2] # action.payload

\* `updated' has every field of `payload' with the payload's value, and beside
\* them only the category_name of `cached'.
KeepsCategoryName(updated, payload, cached) ==
    /\ DOMAIN updated = DOMAIN payload \cup { "category_name" }
    /\ \A field \in DOMAIN payload : updated[field] = payload[field]
    /\ updated.category_name = cached.category_name

\* C24: after updateTransaction.fulfilled(payload) the entry of transactions
\* with the payload's id, and the current transaction if it has that id, have
\* every field of the payload and the category_name they had before the update,
\* also when the payload's category_id is not the cached one.
C24_UpdateKeepsCategoryName ==
    [][ IsEdit(action', "transactions", "update") =>
          LET payload == action'.payload
          IN  /\ \A i \in DOMAIN transactions.transactions :
                    transactions.transactions[i].id = payload.id =>
                        KeepsCategoryName(transactions'.transactions[i], payload,
                                          transactions.transactions[i])
              /\ (transactions.transaction # Null
                      /\ transactions.transaction.id = payload.id) =>
                    KeepsCategoryName(transactions'.transaction, payload,
                                      transactions.transaction) ]_vars

\* A cached transaction, also the one being viewed, has been moved to another
\* category and still carries the name of the category it was fetched with.
C24_Witness ==
    /\ IsEdit(action, "transactions", "update")
    /\ action.payload.category_id \in OtherCategoryIds
    /\ \E i \in DOMAIN transactions.transactions :
          /\ transactions.transactions[i].id = action.payload.id
          /\ transactions.transactions[i].category_id = action.payload.category_id
          /\ transactions.transactions[i].category_name \in SearchedCategoryNames
          /\ transactions.transaction = transactions.transactions[i]

=============================================================================
